---- MODULE Spec2Model ----
(***************************************************************************)
(* A model of the capture pipeline of webpage-scraper:                     *)
(*   WebPage::from_tab      (src/src/webpage.rs)  conversion + image fetch *)
(*   Images::from           (src/src/images.rs)   one task per reference   *)
(*   WebPage::write_to_disk (src/src/webpage.rs)  the bundle on disk       *)
(*                                                                         *)
(* Rust futures are lazy: a future runs only while it is polled, and a     *)
(* poll runs the future up to its next suspension point.  The positions    *)
(* recorded below are therefore the suspension points of the code (a       *)
(* network request in flight) and the blocking calls it makes (pandoc,     *)
(* the file system).                                                       *)
(***************************************************************************)
EXTENDS Integers, Sequences, FiniteSets, TLC

\* Number of <img> elements of a captured document (Spec).
MaxImgs == 2

\* Number of <img> elements of the document behind a bundle written to disk
\* (SpecWrite).
MaxWriteImgs == 1

VARIABLES
    pc,            \* from_tab: "start", "join" (awaiting future::join), "returned"
    url,           \* tab.get_url()
    html,          \* tab.get_content(): the <img> elements of the document
    md,            \* the html2md future        [st, out]
    imgs,          \* the Images::from future   [st, out]
    tasks_src,     \* Images::from: tasks_src    (one future per src attribute)
    tasks_srcset,  \* Images::from: tasks_srcset (one future per data-srcset)
    webpage,       \* what from_tab returned
    wpc,           \* write_to_disk: position
    fs,            \* the file system below the output path
    fs0,           \* the file system when write_to_disk was called
    html_res, pdf_res, md_res, images_res, info_json_res,  \* write_to_disk's five futures
    img_results,   \* write_images_to_disk: results of the image writes so far
    out,           \* what write_to_disk returned
    task           \* one Image future on its own (SpecImage)

cvars == <<pc, url, html, md, imgs, tasks_src, tasks_srcset, webpage>>
wvars == <<wpc, fs, fs0, html_res, pdf_res, md_res, images_res, info_json_res,
           img_results, out>>
vars == <<pc, url, html, md, imgs, tasks_src, tasks_srcset, webpage,
          wpc, fs, fs0, html_res, pdf_res, md_res, images_res, info_json_res,
          img_results, out, task>>

-----------------------------------------------------------------------------
(* Result<T, E> and a future's output that is not there yet.               *)

Ok(v) == [tag |-> "ok", val |-> v]
Err(e) == [tag |-> "err", err |-> e]
NotYet == [tag |-> "none"]

IsOk(r) == r.tag = "ok"
IsErr(r) == r.tag = "err"

-----------------------------------------------------------------------------
(* Text.  A string is the sequence of its characters, a byte string the    *)
(* sequence of its bytes, and an Option<T> a sequence of at most one T.    *)

None == <<>>
Some(x) == <<x>>

\* str::starts_with, str::ends_with
starts_with(s, p) == Len(s) >= Len(p) /\ SubSeq(s, 1, Len(p)) = p
ends_with(s, p) == Len(s) >= Len(p) /\ SubSeq(s, Len(s) - Len(p) + 1, Len(s)) = p

\* The place of the first character of s that is in cs; 0 when none is.
find(s, cs) ==
    LET at == { i \in 1..Len(s) : s[i] \in cs }
    IN IF at = {} THEN 0 ELSE CHOOSE i \in at : \A j \in at : i <= j

\* str::split(c): the pieces between the separators, one more than there
\* are separators.
RECURSIVE split(_, _)
split(s, c) ==
    LET i == find(s, {c})
    IN IF i = 0 THEN <<s>>
       ELSE <<SubSeq(s, 1, i - 1)>> \o split(SubSeq(s, i + 1, Len(s)), c)

\* str::split_once(c)
split_once(s, c) ==
    LET i == find(s, {c})
    IN IF i = 0 THEN None
       ELSE Some(<<SubSeq(s, 1, i - 1), SubSeq(s, i + 1, Len(s))>>)

IsWhitespace(c) == c \in {" ", "\n", "\t"}

RECURSIVE skip_whitespace(_), skip_word(_), trim_end(_)
skip_whitespace(s) ==
    IF s # <<>> /\ IsWhitespace(Head(s)) THEN skip_whitespace(Tail(s)) ELSE s

skip_word(s) ==
    IF s # <<>> /\ ~IsWhitespace(Head(s)) THEN skip_word(Tail(s)) ELSE s

trim_end(s) ==
    IF s # <<>> /\ IsWhitespace(s[Len(s)])
    THEN trim_end(SubSeq(s, 1, Len(s) - 1)) ELSE s

\* str::trim
trim(s) == trim_end(skip_whitespace(s))

\* entry.split_whitespace().next()
split_whitespace_next(entry) ==
    LET rest == skip_whitespace(entry)
    IN IF rest = <<>> THEN None
       ELSE Some(SubSeq(rest, 1, Len(rest) - Len(skip_word(rest))))

-----------------------------------------------------------------------------
(* The url crate, for the addresses of the inputs: a scheme, "//", a host  *)
(* and a path, with or without a query or a fragment, and references       *)
(* without dot segments.  A Url is its scheme, its host and its            *)
(* path_segments(), which is None for a URL that cannot be a base.         *)

\* The scheme of a text that starts with one.
url_scheme(s) ==
    LET i == find(s, {":", "/", "?", "#"})
    IN IF i > 1 /\ s[i] = ":" THEN Some(SubSeq(s, 1, i - 1)) ELSE None

IsSpecial(scheme) ==
    scheme \in { <<"h", "t", "t", "p">>, <<"h", "t", "t", "p", "s">> }

RECURSIVE skip_slashes(_)
skip_slashes(s) == IF s # <<>> /\ Head(s) = "/" THEN skip_slashes(Tail(s)) ELSE s

\* The path of a reference or of what follows the host: up to "?" or "#".
url_path(s) ==
    LET q == find(s, {"?", "#"})
    IN IF q = 0 THEN s ELSE SubSeq(s, 1, q - 1)

\* The segments of a path that starts with "/"; the path of a URL with a
\* host is never empty.
segments(path) == IF path = <<>> THEN <<<<>>>> ELSE split(Tail(path), "/")

\* Url::parse
Url_parse(s) ==
    LET scheme == url_scheme(s)
    IN IF scheme = None THEN Err("UrlError")
       ELSE LET rest == SubSeq(s, Len(scheme[1]) + 2, Len(s))
            IN IF ~IsSpecial(scheme[1])
               THEN IF starts_with(rest, <<"/">>)
                    THEN Ok([scheme |-> scheme[1], host |-> <<>>,
                             path_segments |-> Some(segments(url_path(rest)))])
                    ELSE Ok([scheme |-> scheme[1], host |-> <<>>,
                             path_segments |-> None])
               ELSE LET after == skip_slashes(rest)
                        e == find(after, {"/", "?", "#"})
                        host == IF e = 0 THEN after ELSE SubSeq(after, 1, e - 1)
                        tail == IF e = 0 THEN <<>> ELSE SubSeq(after, e, Len(after))
                    IN IF host = <<>> \/ \E i \in 1..Len(host) : host[i] \in {"[", "]", " "}
                       THEN Err("UrlError")
                       ELSE Ok([scheme |-> scheme[1], host |-> host,
                                path_segments |-> Some(segments(url_path(tail)))])

\* Url::join
Url_join(base, s) ==
    LET path == url_path(s)
        dir == SubSeq(base.path_segments[1], 1, Len(base.path_segments[1]) - 1)
    IN IF url_scheme(s) # None THEN Url_parse(s)
       ELSE IF base.path_segments = None THEN Err("UrlError")
       ELSE IF path = <<>> THEN Ok(base)
       ELSE IF starts_with(path, <<"/", "/">>)
       THEN Url_parse(base.scheme \o <<":">> \o s)
       ELSE IF Head(path) = "/"
       THEN Ok([base EXCEPT !.path_segments = Some(segments(path))])
       ELSE Ok([base EXCEPT !.path_segments = Some(dir \o split(path, "/"))])

-----------------------------------------------------------------------------
(* The base64 crate: general_purpose::STANDARD, the alphabet of RFC 4648   *)
(* with canonical padding.                                                 *)

STANDARD ==
    << "A", "B", "C", "D", "E", "F", "G", "H", "I", "J", "K", "L", "M",
       "N", "O", "P", "Q", "R", "S", "T", "U", "V", "W", "X", "Y", "Z",
       "a", "b", "c", "d", "e", "f", "g", "h", "i", "j", "k", "l", "m",
       "n", "o", "p", "q", "r", "s", "t", "u", "v", "w", "x", "y", "z",
       "0", "1", "2", "3", "4", "5", "6", "7", "8", "9", "+", "/" >>

\* The six bits of a symbol.
sextet(c) == (CHOOSE i \in 1..Len(STANDARD) : STANDARD[i] = c) - 1

RECURSIVE trim_padding(_)
trim_padding(s) ==
    IF s # <<>> /\ s[Len(s)] = "=" THEN trim_padding(SubSeq(s, 1, Len(s) - 1)) ELSE s

\* The bytes of a run of symbols: three of every four symbols, and one or
\* two of the two or three symbols that are left.
RECURSIVE decode_symbols(_)
decode_symbols(v) ==
    IF Len(v) < 2 THEN <<>>
    ELSE LET b1 == v[1] * 4 + v[2] \div 16
         IN IF Len(v) = 2 THEN <<b1>>
            ELSE LET b2 == (v[2] % 16) * 16 + v[3] \div 4
                 IN IF Len(v) = 3 THEN <<b1, b2>>
                    ELSE <<b1, b2, (v[3] % 4) * 64 + v[4]>>
                         \o decode_symbols(SubSeq(v, 5, Len(v)))

\* STANDARD.decode(data): an error on a character that is no symbol, on a
\* padding that does not complete the last group of four, and on bits that
\* are left over and are not zero.
base64_decode(data) ==
    LET symbols == trim_padding(data)
        padding == Len(data) - Len(symbols)
        left == Len(symbols) % 4
        v == [i \in 1..Len(symbols) |-> sextet(symbols[i])]
    IN IF \E i \in 1..Len(symbols) : \A k \in 1..Len(STANDARD) : STANDARD[k] # symbols[i]
       THEN Err("Base64Error")
       ELSE IF left = 1 \/ padding # (4 - left) % 4
       THEN Err("Base64Error")
       ELSE IF (left = 2 /\ v[Len(v)] % 16 # 0) \/ (left = 3 /\ v[Len(v)] % 4 # 0)
       THEN Err("Base64Error")
       ELSE Ok(decode_symbols(v))

-----------------------------------------------------------------------------
(* Inputs.                                                                 *)

\* a.png
SrcRelative == <<"a", ".", "p", "n", "g">>

\* data:image/png;base64,QQ==
SrcInline ==
    <<"d", "a", "t", "a", ":", "i", "m", "a", "g", "e", "/", "p", "n", "g",
      ";", "b", "a", "s", "e", "6", "4", ",", "Q", "Q", "=", "=">>

\* data:image/png;base64,@
SrcInlineBad ==
    <<"d", "a", "t", "a", ":", "i", "m", "a", "g", "e", "/", "p", "n", "g",
      ";", "b", "a", "s", "e", "6", "4", ",", "@">>

\* http://[
SrcNoUrl == <<"h", "t", "t", "p", ":", "/", "/", "[">>

SrcAttrs == {SrcRelative, SrcInline, SrcInlineBad, SrcNoUrl}

\* http://c/s.png 1x, http://c/a.png 2x
SrcsetAbsolute ==
    <<"h", "t", "t", "p", ":", "/", "/", "c", "/", "s", ".", "p", "n", "g",
      " ", "1", "x", ",", " ",
      "h", "t", "t", "p", ":", "/", "/", "c", "/", "a", ".", "p", "n", "g",
      " ", "2", "x">>

\* http://c/c.txt 1x
SrcsetNoImage ==
    <<"h", "t", "t", "p", ":", "/", "/", "c", "/", "c", ".", "t", "x", "t",
      " ", "1", "x">>

\* a.png 1x, b.jpg 2x
SrcsetRelative ==
    <<"a", ".", "p", "n", "g", " ", "1", "x", ",", " ",
      "b", ".", "j", "p", "g", " ", "2", "x">>

SrcsetAttrs == {SrcsetAbsolute, SrcsetNoImage, SrcsetRelative}

\* An <img> element: attr("src") and attr("data-srcset").
Elements ==
    [src : {None} \cup {Some(s) : s \in SrcAttrs},
     srcset : {None} \cup {Some(s) : s \in SrcsetAttrs}]

Documents(n) == UNION { [1..k -> Elements] : k \in 0..n }

\* http://h/
TabUrl == <<"h", "t", "t", "p", ":", "/", "/", "h", "/">>

\* tab.get_url(): an address Url::parse accepts, and one it rejects
\* (no-base).
TabUrls == {TabUrl, <<"n", "o", "-", "b", "a", "s", "e">>}

Title == "t"
Today == "2026-01-01"

\* What the converter can write: empty, one word, leading / trailing /
\* repeated separators, and whitespace only.
MdTexts ==
    { <<>>,
      <<"w">>,
      <<" ", "w", "\n", "w", " ">>,
      <<"w", "w", "\t", "\t", "w">>,
      <<"\n", " ">> }

\* What a server answers: a status, or no answer at all (status 0).
Statuses == {0, 200, 404}

\* The body a server holds for a URL: one byte, another on each host.
ServerBody(u) == IF u.host = <<"h">> THEN <<104>> ELSE <<99>>

\* The answers to a request: reqwest sends none to a URL that is not of
\* http or https.
Responses(u) ==
    { [status |-> s, body |-> ServerBody(u)] :
          s \in IF IsSpecial(u.scheme) THEN Statuses ELSE {0} }

-----------------------------------------------------------------------------
(* images.rs: Image                                                        *)

\* Url::parse(base_url)
UrlParseOk(u) == IsOk(Url_parse(u))

\* format!("inline.{}", extension)
inline_name(extension) == <<"i", "n", "l", "i", "n", "e", ".">> \o extension

\* A plausible slip: "rsplit_once" for "split_once".
parse_data_url_rsplit(src) ==
    LET at == { i \in 1..Len(src) : src[i] = "," }
        i == CHOOSE i \in at : \A j \in at : j <= i
    IN IF at = {} THEN Err("Base24CommaError")
       ELSE LET meta == SubSeq(src, 1, i - 1)
                data == SubSeq(src, i + 1, Len(src))
                mime == split(split(meta, ";")[1], "/")
                extension == IF Len(mime) >= 2 THEN mime[2] ELSE <<"i", "m", "g">>
                bytes == base64_decode(data)
            IN IF IsErr(bytes) THEN bytes
               ELSE Ok([image_bytes |-> bytes.val, filename |-> inline_name(extension)])

\* Image::parse_data_url
parse_data_url(src) ==
    LET parts == split_once(src, ",")
    IN IF parts = None THEN Err("Base24CommaError")
       ELSE LET meta == parts[1][1]
                data == parts[1][2]
                mime == split(split(meta, ";")[1], "/")
                extension == IF Len(mime) >= 2 THEN mime[2] ELSE <<"i", "m", "g">>
                bytes == base64_decode(data)
            IN IF IsErr(bytes) THEN bytes
               ELSE Ok([image_bytes |-> bytes.val, filename |-> inline_name(extension)])

\* A plausible slip: the last segment as it is, empty or not.
fetch_image_unfiltered(img_url, resp) ==
    LET filename == IF img_url.path_segments = None THEN <<"i", "m", "a", "g", "e">>
                    ELSE img_url.path_segments[1][Len(img_url.path_segments[1])]
    IN IF resp.status = 0 THEN Err("ReqwestError")
       ELSE IF resp.status >= 400 /\ resp.status <= 599 THEN Err("ReqwestError")
       ELSE Ok([image_bytes |-> resp.body, filename |-> filename])

\* A plausible slip: no error_for_status().
fetch_image_unchecked(img_url, resp) ==
    LET last == IF img_url.path_segments = None THEN None
                ELSE Some(img_url.path_segments[1][Len(img_url.path_segments[1])])
        filename == IF last # None /\ last[1] # <<>> THEN last[1]
                    ELSE <<"i", "m", "a", "g", "e">>
    IN IF resp.status = 0 THEN Err("ReqwestError")
       ELSE Ok([image_bytes |-> resp.body, filename |-> filename])

\* Image::fetch_image, from the answer to its request on
fetch_image(img_url, resp) ==
    LET last == IF img_url.path_segments = None THEN None
                ELSE Some(img_url.path_segments[1][Len(img_url.path_segments[1])])
        filename == IF last # None /\ last[1] # <<>> THEN last[1]
                    ELSE <<"i", "m", "a", "g", "e">>
    IN IF resp.status = 0 THEN Err("ReqwestError")
       ELSE IF resp.status >= 400 /\ resp.status <= 599 THEN Err("ReqwestError")
       ELSE Ok([image_bytes |-> resp.body, filename |-> filename])

\* No task.
NoTask == [kind |-> "none", attr |-> <<>>, st |-> "none", out |-> NotYet]

\* A task that was created and never polled.
Created(kind, attr) == [kind |-> kind, attr |-> attr, st |-> "created", out |-> NotYet]

\* url.ends_with(".jpg") || ... (lines 82-87)
is_image_url(u) ==
    \/ ends_with(u, <<".", "j", "p", "g">>)
    \/ ends_with(u, <<".", "j", "p", "e", "g">>)
    \/ ends_with(u, <<".", "p", "n", "g">>)
    \/ ends_with(u, <<".", "w", "e", "b", "p">>)

\* .map(|s| s.trim()).filter_map(|entry| entry.split_whitespace().next())
RECURSIVE first_tokens(_)
first_tokens(entries) ==
    IF entries = <<>> THEN <<>>
    ELSE split_whitespace_next(trim(Head(entries))) \o first_tokens(Tail(entries))

\* A plausible slip: ".next()" for ".last()".
extract_last_image_url_first(srcset) ==
    LET urls == SelectSeq(first_tokens(split(srcset, ",")), is_image_url)
    IN IF urls = <<>> THEN None ELSE Some(urls[1])

\* Image::extract_last_image_url
extract_last_image_url(srcset) ==
    LET urls == SelectSeq(first_tokens(split(srcset, ",")), is_image_url)
    IN IF urls = <<>> THEN None ELSE Some(urls[Len(urls)])

\* Image::handle_image_src, polled for the first time: it runs up to the
\* request of fetch_image, or to its end.
handle_image_src(t, base_url) ==
    IF starts_with(t.attr, <<"d", "a", "t", "a", ":", "i", "m", "a", "g", "e">>)
    THEN [t EXCEPT !.st = "done", !.out = parse_data_url(t.attr)]
    ELSE LET img_url == Url_join(base_url, t.attr)
         IN IF IsErr(img_url)
            THEN [t EXCEPT !.st = "done", !.out = img_url]
            ELSE [kind |-> t.kind, attr |-> t.attr, st |-> "pending", out |-> NotYet,
                  img_url |-> img_url.val]

\* A plausible slip: the candidate is joined against the address of the
\* page, as a src reference is.
handle_image_srcset_joined(t) ==
    LET candidate == extract_last_image_url(t.attr)
    IN IF candidate = None
       THEN [t EXCEPT !.st = "done", !.out = Err("SrcsetError")]
       ELSE LET img_url == Url_join(Url_parse(TabUrl).val, candidate[1])
            IN IF IsErr(img_url)
               THEN [t EXCEPT !.st = "done", !.out = img_url]
               ELSE [kind |-> t.kind, attr |-> t.attr, st |-> "pending", out |-> NotYet,
                     img_url |-> img_url.val]

\* Image::handle_image_srcset, polled for the first time.
handle_image_srcset(t) ==
    LET candidate == extract_last_image_url(t.attr)
    IN IF candidate = None
       THEN [t EXCEPT !.st = "done", !.out = Err("SrcsetError")]
       ELSE LET img_url == Url_parse(candidate[1])
            IN IF IsErr(img_url)
               THEN [t EXCEPT !.st = "done", !.out = img_url]
               ELSE [kind |-> t.kind, attr |-> t.attr, st |-> "pending", out |-> NotYet,
                     img_url |-> img_url.val]

\* A pending task polled again once its request was answered.
fetch_done(t, resp) ==
    [t EXCEPT !.st = "done", !.out = fetch_image(t.img_url, resp)]

-----------------------------------------------------------------------------
(* images.rs: Images::from                                                 *)

RECURSIVE SeqOfSrc(_), SeqOfSrcset(_)

\* The loop over the <img> elements: one task per src attribute ...
SeqOfSrc(doc) ==
    IF doc = <<>> THEN <<>>
    ELSE (IF Head(doc).src = None THEN <<>> ELSE <<Created("src", Head(doc).src[1])>>)
         \o SeqOfSrc(Tail(doc))

\* ... and one per data-srcset attribute.
SeqOfSrcset(doc) ==
    IF doc = <<>> THEN <<>>
    ELSE (IF Head(doc).srcset = None THEN <<>>
          ELSE <<Created("srcset", Head(doc).srcset[1])>>)
         \o SeqOfSrcset(Tail(doc))

\* A plausible slip: a combinator that does not wait for a task whose
\* request is in flight (a deadline that has passed).
join_all_ready_deadline(tasks) == \A i \in 1..Len(tasks) : tasks[i].st # "created"

\* A plausible slip: a combinator that is ready with the first task that is
\* (select_all for join_all).
join_all_ready_first(tasks) ==
    tasks = <<>> \/ \E i \in 1..Len(tasks) : tasks[i].st = "done"

\* join_all(tasks) is ready
join_all_ready(tasks) == \A i \in 1..Len(tasks) : tasks[i].st = "done"

RECURSIVE filter_map_ok(_)
filter_map_ok(results) ==
    IF results = <<>> THEN <<>>
    ELSE (IF IsOk(Head(results)) THEN <<Head(results).val>> ELSE <<>>)
         \o filter_map_ok(Tail(results))

Outputs(tasks) == [i \in 1..Len(tasks) |-> tasks[i].out]

\* A plausible slip: collecting into Result<Vec<Image>> makes one failure
\* the failure of the whole.
Images_collect_all_or_nothing(results_src, results_srcset) ==
    LET all == results_src \o results_srcset
        bad == { i \in 1..Len(all) : ~IsOk(all[i]) }
    IN IF bad = {} THEN Ok(filter_map_ok(all))
       ELSE Err(all[CHOOSE i \in bad : \A j \in bad : i <= j].err)

\* A plausible slip: "results_srcset.into_iter().chain(results_src)".
Images_collect_srcset_first(results_src, results_srcset) ==
    Ok(filter_map_ok(results_srcset \o results_src))

\* "Collect successful images only"
Images_collect(results_src, results_srcset) ==
    Ok(filter_map_ok(results_src \o results_srcset))

-----------------------------------------------------------------------------
(* webpage.rs: WebPage::from_tab                                           *)

\* md.split_whitespace().count(): the iterator skips a run of whitespace,
\* yields the run of other characters that follows, and starts again.
RECURSIVE split_whitespace_count(_)
split_whitespace_count(s) ==
    LET rest == skip_whitespace(s)
    IN IF rest = <<>> THEN 0 ELSE 1 + split_whitespace_count(skip_word(rest))

\* A plausible slip: the length of the text for its number of words.
WebPage_new_len(u, h, text, images) ==
    [url |-> u, title |-> Title, date |-> Today, html |-> h,
     markdown |-> text, images |-> images,
     info_json |-> [url |-> u, title |-> Title, date |-> Today,
                    nb_md_words |-> Len(text),
                    nb_images |-> Len(images)]]

\* The WebPage of lines 71-87.
WebPage_new(u, h, text, images) ==
    [url |-> u, title |-> Title, date |-> Today, html |-> h,
     markdown |-> text, images |-> images,
     info_json |-> [url |-> u, title |-> Title, date |-> Today,
                    nb_md_words |-> split_whitespace_count(text),
                    nb_images |-> Len(images)]]

\* A plausible slip: "let images = images?; let md = md?;".
from_tab_result_images_first(u, h, md_out, images_out) ==
    IF IsErr(images_out) THEN Err(<<"ImagesError", images_out.err>>)
    ELSE IF IsErr(md_out) THEN Err(<<"MarkdownConversionError">>)
    ELSE Ok(WebPage_new(u, h, md_out.val, images_out.val))

\* A plausible slip: "images.unwrap_or_default()", a capture without images
\* for a capture that failed.
from_tab_result_lenient(u, h, md_out, images_out) ==
    IF IsErr(md_out) THEN Err(<<"MarkdownConversionError">>)
    ELSE Ok(WebPage_new(u, h, md_out.val,
                        IF IsErr(images_out) THEN <<>> ELSE images_out.val))

\* from_tab once future::join has returned (md, images): lines 69-87.
from_tab_result(u, h, md_out, images_out) ==
    IF IsErr(md_out) THEN Err(<<"MarkdownConversionError">>)
    ELSE IF IsErr(images_out) THEN Err(<<"ImagesError", images_out.err>>)
    ELSE Ok(WebPage_new(u, h, md_out.val, images_out.val))

\* from_tab reads the clock and the tab (lines 58-62), an error of which
\* returns at once, and builds the two futures of lines 64-65.  Neither
\* future has run yet.
from_tab_begin ==
    /\ pc = "start"
    /\ \E r \in {"ok", "TimeError", "AnyhowError"} :
         IF r = "ok"
         THEN /\ pc' = "join"
              /\ md' = [st |-> "created", out |-> NotYet]
              /\ imgs' = [st |-> "created", out |-> NotYet]
              /\ UNCHANGED webpage
         ELSE /\ pc' = "returned"
              /\ webpage' = Err(<<r>>)
              /\ UNCHANGED <<md, imgs>>
    /\ UNCHANGED <<url, html, tasks_src, tasks_srcset>>
    /\ UNCHANGED <<wvars, task>>

\* future::join polls md first.  html2md has no suspension point: its poll
\* is the call of pandoc.execute(), which blocks the thread until pandoc
\* has exited.
html2md_execute ==
    /\ pc = "join"
    /\ md.st = "created"
    /\ md' = [md EXCEPT !.st = "running"]
    /\ UNCHANGED <<pc, url, html, imgs, tasks_src, tasks_srcset, webpage>>
    /\ UNCHANGED <<wvars, task>>

\* pandoc has exited: html2md returns the text or the error (lines 149-156).
html2md_return ==
    /\ md.st = "running"
    /\ \E r \in {Ok(t) : t \in MdTexts} \cup {Err("PandocError")} :
         md' = [st |-> "done", out |-> r]
    /\ UNCHANGED <<pc, url, html, imgs, tasks_src, tasks_srcset, webpage>>
    /\ UNCHANGED <<wvars, task>>

\* join_all(tasks), polled for the first time, polls every task once.
poll_src(tasks, base_url) ==
    [i \in 1..Len(tasks) |-> handle_image_src(tasks[i], base_url)]
poll_srcset(tasks) == [i \in 1..Len(tasks) |-> handle_image_srcset(tasks[i])]

\* future::join then polls images, md being done: Images::from runs from its
\* first line to the first poll of join_all(tasks_src) (lines 128-153).
Images_from_begin ==
    /\ pc = "join"
    /\ md.st = "done"
    /\ imgs.st = "created"
    /\ IF ~UrlParseOk(url)
       THEN /\ imgs' = [st |-> "done", out |-> Err("UrlError")]
            /\ UNCHANGED <<tasks_src, tasks_srcset>>
       ELSE \E client \in BOOLEAN :
              IF ~client
              THEN /\ imgs' = [st |-> "done", out |-> Err("ReqwestError")]
                   /\ UNCHANGED <<tasks_src, tasks_srcset>>
              ELSE /\ imgs' = [imgs EXCEPT !.st = "src"]
                   /\ tasks_src' = poll_src(SeqOfSrc(html), Url_parse(url).val)
                   /\ tasks_srcset' = SeqOfSrcset(html)
    /\ UNCHANGED <<pc, url, html, md, webpage>>
    /\ UNCHANGED <<wvars, task>>

\* A request of a src task is answered and the task, polled again, ends.
fetch_src_done(i) ==
    /\ imgs.st = "src"
    /\ i \in 1..Len(tasks_src)
    /\ tasks_src[i].st = "pending"
    /\ \E resp \in Responses(tasks_src[i].img_url) :
         tasks_src' = [tasks_src EXCEPT ![i] = fetch_done(tasks_src[i], resp)]
    /\ UNCHANGED <<pc, url, html, md, imgs, tasks_srcset, webpage>>
    /\ UNCHANGED <<wvars, task>>

\* join_all(tasks_src) is ready (line 153): Images::from goes on to the
\* first poll of join_all(tasks_srcset) (line 154).
Images_from_srcset ==
    /\ imgs.st = "src"
    /\ join_all_ready(tasks_src)
    /\ imgs' = [imgs EXCEPT !.st = "srcset"]
    /\ tasks_srcset' = poll_srcset(tasks_srcset)
    /\ UNCHANGED <<pc, url, html, md, tasks_src, webpage>>
    /\ UNCHANGED <<wvars, task>>

\* A request of a data-srcset task is answered and the task ends.
fetch_srcset_done(i) ==
    /\ imgs.st = "srcset"
    /\ i \in 1..Len(tasks_srcset)
    /\ tasks_srcset[i].st = "pending"
    /\ \E resp \in Responses(tasks_srcset[i].img_url) :
         tasks_srcset' = [tasks_srcset EXCEPT ![i] = fetch_done(tasks_srcset[i], resp)]
    /\ UNCHANGED <<pc, url, html, md, imgs, tasks_src, webpage>>
    /\ UNCHANGED <<wvars, task>>

\* join_all(tasks_srcset) is ready: Images::from returns (lines 157-163).
Images_from_return ==
    /\ imgs.st = "srcset"
    /\ join_all_ready(tasks_srcset)
    /\ imgs' = [st |-> "done",
                out |-> Images_collect(Outputs(tasks_src), Outputs(tasks_srcset))]
    /\ UNCHANGED <<pc, url, html, md, tasks_src, tasks_srcset, webpage>>
    /\ UNCHANGED <<wvars, task>>

\* future::join(md, images) is ready when both futures are (line 67).
join_ready == md.st = "done" /\ imgs.st = "done"

\* from_tab returns (lines 69-87).
from_tab_return ==
    /\ pc = "join"
    /\ join_ready
    /\ webpage' = from_tab_result(url, html, md.out, imgs.out)
    /\ pc' = "returned"
    /\ UNCHANGED <<url, html, md, imgs, tasks_src, tasks_srcset>>
    /\ UNCHANGED <<wvars, task>>

\* The file system is not touched by from_tab.
NoDisk ==
    /\ wpc = "idle" /\ fs = [dirs |-> {}, files |-> <<>>] /\ fs0 = fs
    /\ html_res = NotYet /\ pdf_res = NotYet /\ md_res = NotYet
    /\ images_res = NotYet /\ info_json_res = NotYet
    /\ img_results = <<>> /\ out = NotYet

Init ==
    /\ pc = "start"
    /\ url \in TabUrls
    /\ html \in Documents(MaxImgs)
    /\ md = [st |-> "none", out |-> NotYet]
    /\ imgs = [st |-> "none", out |-> NotYet]
    /\ tasks_src = <<>>
    /\ tasks_srcset = <<>>
    /\ webpage = NotYet
    /\ NoDisk
    /\ task = NoTask

Next ==
    \/ from_tab_begin
    \/ html2md_execute
    \/ html2md_return
    \/ Images_from_begin
    \/ \E i \in 1..Len(tasks_src) : fetch_src_done(i)
    \/ Images_from_srcset
    \/ \E i \in 1..Len(tasks_srcset) : fetch_srcset_done(i)
    \/ Images_from_return
    \/ from_tab_return

Spec == Init /\ [][Next]_vars

-----------------------------------------------------------------------------
(* The file system below output_path.  A path is the sequence of its       *)
(* components after output_path: <<>> is output_path itself.               *)

NoFiles == [p \in {} |-> <<>>]

is_file(f, p) == p \in DOMAIN f.files
is_dir(f, p) == p \in f.dirs
Parent(p) == SubSeq(p, 1, Len(p) - 1)

\* std::fs::create_dir can succeed: nothing is at p, and p's parent is a
\* directory (output_path's own parent is taken to be one).
create_dir_possible(f, p) ==
    /\ ~is_file(f, p) /\ ~is_dir(f, p)
    /\ p = <<>> \/ is_dir(f, Parent(p))

create_dir(f, p) == [f EXCEPT !.dirs = @ \cup {p}]

\* std::fs::write can succeed: p is in a directory and is not one.
write_possible(f, p) == ~is_dir(f, p) /\ p # <<>> /\ is_dir(f, Parent(p))

\* A plausible slip: a file that is there is kept.
fs_write_keep(f, p, contents) ==
    IF is_file(f, p) THEN f ELSE [f EXCEPT !.files = (p :> contents) @@ f.files]

\* std::fs::write creates the file, or replaces all of its contents.
fs_write(f, p, contents) == [f EXCEPT !.files = (p :> contents) @@ f.files]

\* format!("{}.html", title) and its like
html_name(title) == CASE title = "t" -> "t.html" [] OTHER -> ".html"
pdf_name(title) == CASE title = "t" -> "t.pdf" [] OTHER -> ".pdf"
md_name(title) == CASE title = "t" -> "t.md" [] OTHER -> ".md"

Unit == Ok("()")
PathExistsError == Err(<<"IO", "Output path already exists">>)

-----------------------------------------------------------------------------
(* webpage.rs: WebPage::write_to_disk; images.rs: write_images_to_disk     *)
(* None of the futures of write_to_disk has a suspension point: each runs  *)
(* to its end when future::join5 polls it, in the order of the arguments.  *)
(* A file-system call fails when it cannot succeed, and may fail when it   *)
(* can (ok = FALSE); a call that fails changes nothing.                    *)

self == webpage.val

\* A plausible slip: a directory at output_path passes the test.
output_path_exists_file_only(f) == is_file(f, <<>>)

\* line 163
output_path_exists(f) == is_file(f, <<>>) \/ is_dir(f, <<>>)

\* lines 161-169, and the five futures of lines 171-175, not yet polled
write_to_disk_begin ==
    /\ wpc = "start"
    /\ IF output_path_exists(fs)
       THEN /\ out' = PathExistsError
            /\ wpc' = "returned"
            /\ UNCHANGED fs
       ELSE \E ok \in BOOLEAN :
              IF ok /\ create_dir_possible(fs, <<>>)
              THEN /\ fs' = create_dir(fs, <<>>)
                   /\ wpc' = "html"
                   /\ UNCHANGED out
              ELSE /\ out' = Err(<<"IO", "create_dir">>)
                   /\ wpc' = "returned"
                   /\ UNCHANGED fs
    /\ UNCHANGED <<fs0, html_res, pdf_res, md_res, images_res, info_json_res, img_results>>
    /\ UNCHANGED <<cvars, task>>

\* A plausible slip: "self.output_html(..).await?" before the other futures
\* are polled.
output_html_try ==
    /\ wpc = "html"
    /\ \E ok \in BOOLEAN :
         LET p == <<html_name(self.title)>>
         IN IF ok /\ write_possible(fs, p)
            THEN /\ fs' = fs_write(fs, p, <<"html", self.html>>)
                 /\ html_res' = Unit
                 /\ wpc' = "pdf"
                 /\ UNCHANGED out
            ELSE /\ html_res' = Err(<<"IO", "write">>)
                 /\ out' = Err(<<"IO", "write">>)
                 /\ wpc' = "returned"
                 /\ UNCHANGED fs
    /\ UNCHANGED <<fs0, pdf_res, md_res, images_res, info_json_res, img_results>>
    /\ UNCHANGED <<cvars, task>>

\* output_html (lines 191-195)
output_html ==
    /\ wpc = "html"
    /\ \E ok \in BOOLEAN :
         LET p == <<html_name(self.title)>>
         IN IF ok /\ write_possible(fs, p)
            THEN /\ fs' = fs_write(fs, p, <<"html", self.html>>)
                 /\ html_res' = Unit
            ELSE /\ html_res' = Err(<<"IO", "write">>)
                 /\ UNCHANGED fs
    /\ wpc' = "pdf"
    /\ UNCHANGED <<fs0, pdf_res, md_res, images_res, info_json_res, img_results, out>>
    /\ UNCHANGED <<cvars, task>>

\* output_pdf (lines 184-189): the tab prints the page, then the write
output_pdf ==
    /\ wpc = "pdf"
    /\ \E printed \in BOOLEAN, ok \in BOOLEAN :
         LET p == <<pdf_name(self.title)>>
         IN IF ~printed
            THEN /\ pdf_res' = Err(<<"AnyhowError">>)
                 /\ UNCHANGED fs
            ELSE IF ok /\ write_possible(fs, p)
            THEN /\ fs' = fs_write(fs, p, <<"pdf", self.url>>)
                 /\ pdf_res' = Unit
            ELSE /\ pdf_res' = Err(<<"IO", "write">>)
                 /\ UNCHANGED fs
    /\ wpc' = "md"
    /\ UNCHANGED <<fs0, html_res, md_res, images_res, info_json_res, img_results, out>>
    /\ UNCHANGED <<cvars, task>>

\* output_markdown (lines 197-202)
output_markdown ==
    /\ wpc = "md"
    /\ \E ok \in BOOLEAN :
         LET p == <<md_name(self.title)>>
         IN IF ok /\ write_possible(fs, p)
            THEN /\ fs' = fs_write(fs, p, <<"md", self.markdown>>)
                 /\ md_res' = Unit
            ELSE /\ md_res' = Err(<<"IO", "write">>)
                 /\ UNCHANGED fs
    /\ wpc' = "images"
    /\ UNCHANGED <<fs0, html_res, pdf_res, images_res, info_json_res, img_results, out>>
    /\ UNCHANGED <<cvars, task>>

\* A plausible slip: images/ is created before the test of line 180.
write_images_to_disk_mkdir_first ==
    /\ wpc = "images"
    /\ \E ok \in BOOLEAN :
         IF ok /\ create_dir_possible(fs, <<"images">>)
         THEN /\ fs' = create_dir(fs, <<"images">>)
              /\ IF Len(self.images) = 0
                 THEN images_res' = Unit /\ wpc' = "info"
                 ELSE wpc' = "image" /\ UNCHANGED images_res
         ELSE /\ images_res' = Err(<<"ImagesError", "IOError", "create_dir">>)
              /\ wpc' = "info"
              /\ UNCHANGED fs
    /\ UNCHANGED <<fs0, html_res, pdf_res, md_res, info_json_res, img_results, out>>
    /\ UNCHANGED <<cvars, task>>

\* write_images_to_disk up to its tasks (images.rs lines 178-190)
write_images_to_disk ==
    /\ wpc = "images"
    /\ IF Len(self.images) = 0
       THEN /\ images_res' = Unit
            /\ wpc' = "info"
            /\ UNCHANGED fs
       ELSE \E ok \in BOOLEAN :
              IF ok /\ create_dir_possible(fs, <<"images">>)
              THEN /\ fs' = create_dir(fs, <<"images">>)
                   /\ wpc' = "image"
                   /\ UNCHANGED images_res
              ELSE /\ images_res' = Err(<<"ImagesError", "IOError", "create_dir">>)
                   /\ wpc' = "info"
                   /\ UNCHANGED fs
    /\ UNCHANGED <<fs0, html_res, pdf_res, md_res, info_json_res, img_results, out>>
    /\ UNCHANGED <<cvars, task>>

\* "for res in results { res? }": the first error, in the order of the tasks
first_error(results) ==
    LET bad == { i \in 1..Len(results) : IsErr(results[i]) }
    IN IF bad = {} THEN Unit
       ELSE results[CHOOSE i \in bad : \A j \in bad : i <= j]

\* join_all polls the next Image::write_to_disk (images.rs lines 113-117);
\* after the last one, write_images_to_disk returns (lines 192-200).
Image_write_to_disk ==
    /\ wpc = "image"
    /\ LET k == Len(img_results) + 1
           image == self.images[k]
           p == <<"images", image.filename>>
       IN /\ k <= Len(self.images)
          /\ \E ok \in BOOLEAN :
               LET res == IF ok /\ write_possible(fs, p)
                          THEN Unit
                          ELSE Err(<<"ImagesError", "IOError", "write">>)
               IN /\ fs' = IF IsOk(res)
                           THEN fs_write(fs, p, <<"image", image.image_bytes>>)
                           ELSE fs
                  /\ img_results' = Append(img_results, res)
                  /\ IF k = Len(self.images)
                     THEN /\ images_res' = first_error(Append(img_results, res))
                          /\ wpc' = "info"
                     ELSE UNCHANGED <<images_res, wpc>>
    /\ UNCHANGED <<fs0, html_res, pdf_res, md_res, info_json_res, out>>
    /\ UNCHANGED <<cvars, task>>

\* output_info_json (lines 204-209); serialising the record of strings and
\* numbers cannot fail
output_info_json ==
    /\ wpc = "info"
    /\ \E ok \in BOOLEAN :
         LET p == <<"informations.json">>
         IN IF ok /\ write_possible(fs, p)
            THEN /\ fs' = fs_write(fs, p, <<"json", self.info_json>>)
                 /\ info_json_res' = Unit
            ELSE /\ info_json_res' = Err(<<"IO", "write">>)
                 /\ UNCHANGED fs
    /\ wpc' = "join"
    /\ UNCHANGED <<fs0, html_res, pdf_res, md_res, images_res, img_results, out>>
    /\ UNCHANGED <<cvars, task>>

\* A plausible slip: "pdf_res?" is left out of line 179.
write_to_disk_result_no_pdf(results) ==
    first_error(<<results[1], results[3], results[4], results[5]>>)

\* "html_res?; pdf_res?; md_res?; images_res?; info_json_res?; Ok(())"
write_to_disk_result(results) == first_error(results)

\* A plausible slip: the directory is removed when a write failed.
write_to_disk_return_rollback ==
    /\ wpc = "join"
    /\ out' = write_to_disk_result(<<html_res, pdf_res, md_res, images_res, info_json_res>>)
    /\ fs' = IF IsErr(out') THEN fs0 ELSE fs
    /\ wpc' = "returned"
    /\ UNCHANGED <<fs0, html_res, pdf_res, md_res, images_res, info_json_res, img_results>>
    /\ UNCHANGED <<cvars, task>>

\* future::join5 is ready: write_to_disk returns (lines 177-181)
write_to_disk_return ==
    /\ wpc = "join"
    /\ out' = write_to_disk_result(<<html_res, pdf_res, md_res, images_res, info_json_res>>)
    /\ wpc' = "returned"
    /\ UNCHANGED <<fs, fs0, html_res, pdf_res, md_res, images_res, info_json_res, img_results>>
    /\ UNCHANGED <<cvars, task>>

\* What can be at output_path when write_to_disk is called: nothing, a
\* file, or a directory with something in it.
Disks ==
    { [dirs |-> {}, files |-> NoFiles],
      [dirs |-> {}, files |-> (<<>> :> <<"old", "file">>)],
      [dirs |-> {<<>>}, files |-> (<<"t.html">> :> <<"old", "page">>)] }

\* A task after its first poll and, where that left a request in flight,
\* after the answer with status s.
Settled(t, s) ==
    IF t.st = "pending"
    THEN fetch_done(t, [status |-> s, body |-> ServerBody(t.img_url)])
    ELSE t

\* write_to_disk is called on a WebPage that from_tab returned: the state
\* is one in which from_tab has returned Ok.
InitWrite ==
    /\ pc = "returned"
    /\ url = TabUrl
    /\ html \in Documents(MaxWriteImgs)
    /\ md \in { [st |-> "done", out |-> Ok(t)] : t \in {<<"w">>, <<" ", "w", "\n", "w", " ">>} }
    /\ \E ss \in [1..Len(SeqOfSrc(html)) -> Statuses],
          sc \in [1..Len(SeqOfSrcset(html)) -> Statuses] :
         /\ tasks_src = [i \in 1..Len(SeqOfSrc(html)) |->
                            Settled(poll_src(SeqOfSrc(html), Url_parse(url).val)[i], ss[i])]
         /\ tasks_srcset = [i \in 1..Len(SeqOfSrcset(html)) |->
                            Settled(poll_srcset(SeqOfSrcset(html))[i], sc[i])]
    /\ imgs = [st |-> "done",
               out |-> Images_collect(Outputs(tasks_src), Outputs(tasks_srcset))]
    /\ webpage = from_tab_result(url, html, md.out, imgs.out)
    /\ wpc = "start"
    /\ fs \in Disks
    /\ fs0 = fs
    /\ html_res = NotYet /\ pdf_res = NotYet /\ md_res = NotYet
    /\ images_res = NotYet /\ info_json_res = NotYet
    /\ img_results = <<>> /\ out = NotYet
    /\ task = NoTask

NextWrite ==
    \/ write_to_disk_begin
    \/ output_html
    \/ output_pdf
    \/ output_markdown
    \/ write_images_to_disk
    \/ Image_write_to_disk
    \/ output_info_json
    \/ write_to_disk_return

SpecWrite == InitWrite /\ [][NextWrite]_vars

-----------------------------------------------------------------------------
(* bin/webpage_scraper.rs: main.  open_tab(..).await.unwrap() stops the    *)
(* program on an error of from_tab; on a WebPage, write_to_disk is called. *)

\* line 32: write_to_disk is called on the WebPage of line 25
main_write_to_disk ==
    /\ pc = "returned"
    /\ IsOk(webpage)
    /\ wpc = "idle"
    /\ wpc' = "start"
    /\ UNCHANGED <<fs, fs0, html_res, pdf_res, md_res, images_res, info_json_res,
                   img_results, out>>
    /\ UNCHANGED <<cvars, task>>

\* Number of <img> elements of a document that main captures (SpecMain).
MaxMainImgs == 2

\* The documents that main captures: a reference that is fetched, one that
\* fails to decode, and a candidate list that is fetched.
MainDocuments(n) ==
    UNION { [1..k -> [src : {None, Some(SrcRelative), Some(SrcInlineBad)},
                      srcset : {None, Some(SrcsetAbsolute)}]] :
            k \in 0..n }

InitMain ==
    /\ pc = "start"
    /\ url \in TabUrls
    /\ html \in MainDocuments(MaxMainImgs)
    /\ md = [st |-> "none", out |-> NotYet]
    /\ imgs = [st |-> "none", out |-> NotYet]
    /\ tasks_src = <<>>
    /\ tasks_srcset = <<>>
    /\ webpage = NotYet
    /\ wpc = "idle"
    /\ fs \in Disks
    /\ fs0 = fs
    /\ html_res = NotYet /\ pdf_res = NotYet /\ md_res = NotYet
    /\ images_res = NotYet /\ info_json_res = NotYet
    /\ img_results = <<>> /\ out = NotYet
    /\ task = NoTask

NextMain ==
    \/ Next
    \/ main_write_to_disk
    \/ NextWrite

SpecMain == InitMain /\ [][NextMain]_vars

\* The steps that from_tab takes by itself when the runtime polls it.  The
\* runtime polls a future that can go on; the exit of pandoc and the answer
\* to a request are not the program's to make, and a request has no
\* timeout (the Client of init_client sets none).
Polled ==
    \/ from_tab_begin
    \/ html2md_execute
    \/ Images_from_begin
    \/ Images_from_srcset
    \/ Images_from_return
    \/ from_tab_return

\* The positions that a poll moves.
pvars == <<pc, md, imgs>>

\* Polled, told by what it does to the positions: the guards of its six
\* steps, and where each leaves from_tab, md and images.
Poll ==
    \/ /\ pc = "start"
       /\ \/ /\ pc' = "join"
             /\ md' = [st |-> "created", out |-> NotYet]
             /\ imgs' = [st |-> "created", out |-> NotYet]
          \/ /\ pc' = "returned"
             /\ UNCHANGED <<md, imgs>>
    \/ /\ pc = "join"
       /\ md.st = "created"
       /\ md' = [md EXCEPT !.st = "running"]
       /\ UNCHANGED <<pc, imgs>>
    \/ /\ pc = "join"
       /\ md.st = "done"
       /\ imgs.st = "created"
       /\ imgs' \in {[st |-> "done", out |-> Err("UrlError")],
                     [st |-> "done", out |-> Err("ReqwestError")],
                     [imgs EXCEPT !.st = "src"]}
       /\ UNCHANGED <<pc, md>>
    \/ /\ imgs.st = "src"
       /\ join_all_ready(tasks_src)
       /\ imgs' = [imgs EXCEPT !.st = "srcset"]
       /\ UNCHANGED <<pc, md>>
    \/ /\ imgs.st = "srcset"
       /\ join_all_ready(tasks_srcset)
       /\ imgs' = [st |-> "done",
                   out |-> Images_collect(Outputs(tasks_src), Outputs(tasks_srcset))]
       /\ UNCHANGED <<pc, md>>
    \/ /\ pc = "join"
       /\ join_ready
       /\ pc' = "returned"
       /\ UNCHANGED <<md, imgs>>

\* Number of <img> elements of a document whose capture is followed to its
\* end (SpecLive).
MaxLiveImgs == 1

InitLive ==
    /\ pc = "start"
    /\ url \in TabUrls
    /\ html \in MainDocuments(MaxLiveImgs)
    /\ md = [st |-> "none", out |-> NotYet]
    /\ imgs = [st |-> "none", out |-> NotYet]
    /\ tasks_src = <<>>
    /\ tasks_srcset = <<>>
    /\ webpage = NotYet
    /\ NoDisk
    /\ task = NoTask

\* The runtime polls from_tab as long as a poll moves it on.
SpecLive == InitLive /\ [][Next]_vars /\ WF_pvars(Poll)

-----------------------------------------------------------------------------
(* One Image future on its own, on attribute values and answers drawn from *)
(* larger sets than a document of Spec has.  A value is a concatenation of  *)
(* pieces.                                                                 *)

\* Number of pieces of a data-srcset value.
MaxSrcsetPieces == 3

\* Number of pieces after the metadata of a data: URL.
MaxBodyPieces == 3

\* Number of pieces of the path of a URL.
MaxPathPieces == 2

RECURSIVE Concats(_, _)
Concats(pieces, n) ==
    IF n = 0 THEN {<<>>}
    ELSE LET shorter == Concats(pieces, n - 1)
         IN shorter \cup { x \o p : x \in shorter, p \in pieces }

\* a  .png  .jpg  .jpeg  .webp  .txt  ?v  (space)  ,  1x  http://c/
SrcsetPieces ==
    { <<"a">>,
      <<".", "p", "n", "g">>,
      <<".", "j", "p", "g">>,
      <<".", "j", "p", "e", "g">>,
      <<".", "w", "e", "b", "p">>,
      <<".", "t", "x", "t">>,
      <<"?", "v">>,
      <<" ">>,
      <<",">>,
      <<"1", "x">>,
      <<"h", "t", "t", "p", ":", "/", "/", "c", "/">> }

\* a.png 100w, b.jpg 200w, c.txt 300w
SrcsetExample ==
    <<"a", ".", "p", "n", "g", " ", "1", "0", "0", "w", ",", " ",
      "b", ".", "j", "p", "g", " ", "2", "0", "0", "w", ",", " ",
      "c", ".", "t", "x", "t", " ", "3", "0", "0", "w">>

SrcsetTexts ==
    Concats(SrcsetPieces, MaxSrcsetPieces) \cup SrcsetAttrs \cup {SrcsetExample}

\* data:image/png;base64  data:image/png  data:image/  data:image
\* data:image;base64  data:image/svg+xml;utf8  data:text/png;base64
DataHeads ==
    { <<"d", "a", "t", "a", ":", "i", "m", "a", "g", "e", "/", "p", "n", "g", ";", "b", "a", "s", "e", "6", "4">>,
      <<"d", "a", "t", "a", ":", "i", "m", "a", "g", "e", "/", "p", "n", "g">>,
      <<"d", "a", "t", "a", ":", "i", "m", "a", "g", "e", "/">>,
      <<"d", "a", "t", "a", ":", "i", "m", "a", "g", "e">>,
      <<"d", "a", "t", "a", ":", "i", "m", "a", "g", "e", ";", "b", "a", "s", "e", "6", "4">>,
      <<"d", "a", "t", "a", ":", "i", "m", "a", "g", "e", "/", "s", "v", "g", "+", "x", "m", "l", ";", "u", "t", "f", "8">>,
      <<"d", "a", "t", "a", ":", "t", "e", "x", "t", "/", "p", "n", "g", ";", "b", "a", "s", "e", "6", "4">> }

\* ,  QQ  QR  QUJD  ==  =  @
BodyPieces ==
    { <<",">>,
      <<"Q", "Q">>,
      <<"Q", "R">>,
      <<"Q", "U", "J", "D">>,
      <<"=", "=">>,
      <<"=">>,
      <<"@">> }

\* (nothing)  d  http://c
UrlHeads ==
    { <<>>,
      <<"d">>,
      <<"h", "t", "t", "p", ":", "/", "/", "c">> }

\* /d  /a.png  /  ?v
PathPieces ==
    { <<"/", "d">>,
      <<"/", "a", ".", "p", "n", "g">>,
      <<"/">>,
      <<"?", "v">> }

SrcTexts ==
    { h \o b : h \in DataHeads, b \in Concats(BodyPieces, MaxBodyPieces) }
        \cup { h \o p : h \in UrlHeads, p \in Concats(PathPieces, MaxPathPieces) }
        \cup SrcAttrs

\* The statuses of the answers that reqwest hands to fetch_image: no answer
\* (0), and statuses of every class but 1xx.
AnyStatuses == {0, 200, 204, 299, 300, 304, 400, 404, 499, 500, 599, 600}

AnyResponses(u) ==
    { [status |-> s, body |-> ServerBody(u)] :
          s \in IF IsSpecial(u.scheme) THEN AnyStatuses ELSE {0} }

\* handle_image_src is polled for the first time
Image_src_poll ==
    /\ task.kind = "src"
    /\ task.st = "created"
    /\ task' = handle_image_src(task, Url_parse(url).val)
    /\ UNCHANGED <<cvars, wvars>>

\* handle_image_srcset is polled for the first time
Image_srcset_poll ==
    /\ task.kind = "srcset"
    /\ task.st = "created"
    /\ task' = handle_image_srcset(task)
    /\ UNCHANGED <<cvars, wvars>>

\* the request of fetch_image is answered; the answer is kept with the task
Image_fetch_done ==
    /\ task.st = "pending"
    /\ \E resp \in AnyResponses(task.img_url) :
         task' = fetch_done(task, resp) @@ [response |-> resp]
    /\ UNCHANGED <<cvars, wvars>>

InitImage ==
    /\ pc = "start"
    /\ url = TabUrl
    /\ html = <<>>
    /\ md = [st |-> "none", out |-> NotYet]
    /\ imgs = [st |-> "none", out |-> NotYet]
    /\ tasks_src = <<>>
    /\ tasks_srcset = <<>>
    /\ webpage = NotYet
    /\ NoDisk
    /\ task \in { Created("src", s) : s \in SrcTexts }
                    \cup { Created("srcset", s) : s \in SrcsetTexts }

NextImage ==
    \/ Image_src_poll
    \/ Image_srcset_poll
    \/ Image_fetch_done

SpecImage == InitImage /\ [][NextImage]_vars

-----------------------------------------------------------------------------
(* Properties of from_tab, checked under Spec.                             *)

\* Every fetch task of the capture, src tasks first.
Tasks == tasks_src \o tasks_srcset

SucceededTasks == { i \in 1..Len(Tasks) : IsOk(Tasks[i].out) }
FailedTasks == { i \in 1..Len(Tasks) : IsErr(Tasks[i].out) }
AllSettled == \A i \in 1..Len(Tasks) : Tasks[i].st = "done"

\* The images are those of the tasks that succeeded, one for each.
ExactlyTheSuccesses(images) ==
    /\ Len(images) = Cardinality(SucceededTasks)
    /\ \A i \in SucceededTasks : \E k \in 1..Len(images) : images[k] = Tasks[i].out.val
    /\ \A k \in 1..Len(images) : \E i \in SucceededTasks : images[k] = Tasks[i].out.val

\* C1: per-fetch failure isolation.  When from_tab has returned from a
\* capture with N >= 1 fetch tasks, every task has run to its own end
\* (none was cancelled by a sibling's failure), Images::from has returned
\* Ok with exactly the images of the tasks that succeeded, so at most N of
\* them and N-1 when one task failed, and the capture has succeeded with
\* these images whenever the conversion has.
C1_FailureIsolation ==
    (pc = "returned" /\ Len(Tasks) >= 1) =>
        /\ AllSettled
        /\ SucceededTasks \cup FailedTasks = 1..Len(Tasks)
        /\ IsOk(imgs.out)
        /\ ExactlyTheSuccesses(imgs.out.val)
        /\ Len(imgs.out.val) <= Len(Tasks)
        /\ Cardinality(FailedTasks) = 1 => Len(imgs.out.val) = Len(Tasks) - 1
        /\ IsOk(md.out) => IsOk(webpage) /\ webpage.val.images = imgs.out.val

\* Three fetches, one of which failed: a bundle with two images.
C1_Witness ==
    /\ pc = "returned"
    /\ Len(Tasks) = 3
    /\ Cardinality(FailedTasks) = 1
    /\ IsOk(webpage)
    /\ Len(webpage.val.images) = 2

\* C2: the barrier before assembly.  from_tab has returned a bundle only
\* when the conversion, Images::from and every fetch task, of src and of
\* data-srcset references, have ended.
C2_Barrier ==
    IsOk(webpage) =>
        /\ md.st = "done"
        /\ imgs.st = "done"
        /\ AllSettled

\* A bundle after fetches of both kinds, some failed and some not.
C2_Witness ==
    /\ IsOk(webpage)
    /\ \E i \in 1..Len(tasks_src) : IsOk(tasks_src[i].out)
    /\ \E i \in 1..Len(tasks_src) : IsErr(tasks_src[i].out)
    /\ \E j \in 1..Len(tasks_srcset) : IsOk(tasks_srcset[j].out)
    /\ \E j \in 1..Len(tasks_srcset) : IsErr(tasks_srcset[j].out)

\* C3: the conversion and the fetch tasks are started at the same time:
\* when the conversion has ended, Images::from is under way.
C3_StartedWithFetches ==
    (pc = "join" /\ md.st = "done") => imgs.st # "created"

\* The conversion and a fetch are never in progress together.
ConversionAlone ==
    md.st = "running" => imgs.st = "created" /\ Tasks = <<>>

\* C4: the fetch tasks are started together: while a task has its request
\* in flight, no sibling is still waiting to be started.
C4_StartedTogether ==
    \A i \in 1..Len(Tasks), j \in 1..Len(Tasks) :
        Tasks[i].st = "pending" => Tasks[j].st # "created"

\* C5: a failure of the conversion is the result of from_tab, whatever the
\* fetches did; the fetch tasks have all run to their end by then and
\* their images are in no bundle.
C5_ConversionFailure ==
    (pc = "returned" /\ IsErr(md.out)) =>
        /\ webpage = Err(<<"MarkdownConversionError">>)
        /\ imgs.st = "done"
        /\ AllSettled

\* The conversion failed, and a fetch had succeeded.
C5_Witness ==
    /\ pc = "returned"
    /\ IsErr(md.out)
    /\ IsOk(imgs.out)
    /\ Len(imgs.out.val) >= 1
    /\ FailedTasks # {}

\* The whitespace-delimited tokens of a text: the places where one starts.
TokenStarts(s) ==
    { i \in 1..Len(s) : ~IsWhitespace(s[i]) /\ (i = 1 \/ IsWhitespace(s[i - 1])) }

\* C6: in a bundle, nb_md_words is the number of whitespace-delimited
\* tokens of the bundle's text, which is the converter's, nb_images is the
\* number of the bundle's images, which are those of the successful
\* fetches, and everything had ended when they were computed.
C6_Metadata ==
    IsOk(webpage) =>
        /\ webpage.val.markdown = md.out.val
        /\ webpage.val.info_json.nb_md_words = Cardinality(TokenStarts(webpage.val.markdown))
        /\ webpage.val.info_json.nb_images = Len(webpage.val.images)
        /\ webpage.val.info_json.nb_images = Cardinality(SucceededTasks)
        /\ md.st = "done" /\ AllSettled

\* A text of five characters and two words, and fewer images than fetches.
C6_Witness ==
    /\ IsOk(webpage)
    /\ Len(webpage.val.markdown) = 5
    /\ webpage.val.info_json.nb_md_words = 2
    /\ webpage.val.info_json.nb_images = 1
    /\ Len(Tasks) = 2

-----------------------------------------------------------------------------
(* Properties of write_to_disk, checked under SpecWrite.                   *)

\* Something was at output_path when write_to_disk was called.
ExistedBefore == <<>> \in DOMAIN fs0.files \/ <<>> \in fs0.dirs

\* This call has created the output directory: nothing was there, and the
\* call has gone past the create_dir of line 169.
DirCreated ==
    /\ ~ExistedBefore
    /\ wpc # "start"
    /\ out # Err(<<"IO", "create_dir">>)

NothingAttempted ==
    /\ html_res = NotYet /\ pdf_res = NotYet /\ md_res = NotYet
    /\ images_res = NotYet /\ info_json_res = NotYet
    /\ img_results = <<>>

\* C7: on a path that exists, as a file or as a directory, write_to_disk
\* creates nothing and writes nothing, what was there is unchanged, and
\* what it returns is the path-exists error.
C7_PathExists ==
    ExistedBefore =>
        /\ fs = fs0
        /\ NothingAttempted
        /\ wpc \in {"start", "returned"}
        /\ wpc = "returned" => out = PathExistsError

\* write_to_disk has returned from a call on a directory.
C7_Witness ==
    /\ wpc = "returned"
    /\ <<>> \in fs0.dirs
    /\ out = PathExistsError
    /\ fs.files[<<"t.html">>] = <<"old", "page">>

\* The first error of the five results, in the order html, pdf, md, images,
\* informations.json; Ok(()) when there is none.
FirstOfFive ==
    IF IsErr(html_res) THEN html_res
    ELSE IF IsErr(pdf_res) THEN pdf_res
    ELSE IF IsErr(md_res) THEN md_res
    ELSE IF IsErr(images_res) THEN images_res
    ELSE IF IsErr(info_json_res) THEN info_json_res
    ELSE Unit

\* C8 as stated: once the directory is created, a write_to_disk that has
\* returned has attempted every write, one per asset included.
C8_EveryWriteAttempted ==
    (DirCreated /\ wpc = "returned") =>
        /\ html_res # NotYet /\ md_res # NotYet /\ info_json_res # NotYet
        /\ Len(img_results) = Len(self.images)
        /\ out = FirstOfFive

\* C8, amended: once the directory is created, a write_to_disk that has
\* returned has run its five futures to their end whatever the outcome of
\* the others, and has attempted one write per asset if images/ could be
\* created and none if it could not; what it returns is the first error in
\* the order html, pdf, md, images, informations.json.
C8_WritesJoined ==
    (DirCreated /\ out # NotYet) =>
        /\ wpc = "returned"
        /\ html_res # NotYet /\ pdf_res # NotYet /\ md_res # NotYet
        /\ images_res # NotYet /\ info_json_res # NotYet
        /\ is_dir(fs, <<"images">>) => Len(img_results) = Len(self.images)
        /\ ~is_dir(fs, <<"images">>) => img_results = <<>>
        /\ out = FirstOfFive

\* The first write failed, and writes after it were made.
C8_Witness ==
    /\ DirCreated /\ wpc = "returned"
    /\ IsErr(html_res)
    /\ out = html_res
    /\ Len(img_results) = 2 /\ IsErr(img_results[1]) /\ IsOk(img_results[2])
    /\ IsOk(info_json_res)
    /\ is_file(fs, <<"informations.json">>)

ImagePaths == { p \in DOMAIN fs.files : Len(p) = 2 /\ p[1] = "images" }

\* The last image of the bundle with the filename n.
LastNamed(n) ==
    LET at == { k \in 1..Len(self.images) : self.images[k].filename = n }
    IN self.images[CHOOSE k \in at : \A l \in at : l <= k]

\* C9: filenames are not deduplicated.  After a write_to_disk that has
\* returned Ok, images/ holds one file per distinct filename of the bundle,
\* with the bytes of the last image of that name, and no more files than
\* nb_images of informations.json.
C9_LastWriterWins ==
    (wpc = "returned" /\ out = Unit /\ Len(self.images) > 0) =>
        /\ ImagePaths = { <<"images", self.images[k].filename>> : k \in 1..Len(self.images) }
        /\ \A p \in ImagePaths :
               fs.files[p] = <<"image", LastNamed(p[2]).image_bytes>>
        /\ fs.files[<<"informations.json">>][2].nb_images = Len(self.images)
        /\ Cardinality(ImagePaths) <= Len(self.images)

\* Two images of one name and different bytes, written without an error:
\* one file, with the bytes of the second, and nb_images = 2.
C9_Witness ==
    /\ wpc = "returned" /\ out = Unit
    /\ Len(self.images) = 2
    /\ self.images[1].filename = self.images[2].filename
    /\ self.images[1].image_bytes # self.images[2].image_bytes
    /\ Cardinality(ImagePaths) = 1
    /\ fs.files[<<"images", self.images[2].filename>>] = <<"image", self.images[2].image_bytes>>
    /\ fs.files[<<"informations.json">>][2].nb_images = 2

\* The writes of a bundle.
Writes ==
    {<<"html", 0>>, <<"pdf", 0>>, <<"md", 0>>, <<"json", 0>>}
        \cup { <<"image", k>> : k \in 1..Len(self.images) }

ResultOf(w) ==
    CASE w[1] = "html" -> html_res
      [] w[1] = "pdf" -> pdf_res
      [] w[1] = "md" -> md_res
      [] w[1] = "json" -> info_json_res
      [] OTHER -> IF w[2] <= Len(img_results) THEN img_results[w[2]] ELSE NotYet

PathOf(w) ==
    CASE w[1] = "html" -> <<"t.html">>
      [] w[1] = "pdf" -> <<"t.pdf">>
      [] w[1] = "md" -> <<"t.md">>
      [] w[1] = "json" -> <<"informations.json">>
      [] OTHER -> <<"images", self.images[w[2]].filename>>

ContentsOf(w) ==
    CASE w[1] = "html" -> <<"html", self.html>>
      [] w[1] = "pdf" -> <<"pdf", self.url>>
      [] w[1] = "md" -> <<"md", self.markdown>>
      [] w[1] = "json" -> <<"json", self.info_json>>
      [] OTHER -> <<"image", self.images[w[2]].image_bytes>>

Written == { w \in Writes : IsOk(ResultOf(w)) }

\* The last of the writes made to the path p.
LastWritten(p) ==
    LET to == { w \in Written : PathOf(w) = p }
    IN CHOOSE w \in to : \A v \in to : v[2] <= w[2]

\* C10: no rollback.  When write_to_disk has returned an error after it
\* created the directory, the directory is there, the writes that succeeded
\* are some and not all of the writes of the bundle, and the files of the
\* directory are those of the writes that succeeded, each as its last
\* such write left it.
C10_NoRollback ==
    (DirCreated /\ wpc = "returned" /\ IsErr(out)) =>
        /\ is_dir(fs, <<>>)
        /\ Written # Writes
        /\ DOMAIN fs.files = { PathOf(w) : w \in Written }
        /\ \A p \in DOMAIN fs.files : fs.files[p] = ContentsOf(LastWritten(p))

\* An error, and the files written before and after it are there.
C10_Witness ==
    /\ DirCreated /\ wpc = "returned" /\ IsErr(out)
    /\ IsErr(md_res)
    /\ is_file(fs, <<"t.html">>)
    /\ is_file(fs, <<"informations.json">>)
    /\ Cardinality(ImagePaths) >= 1

-----------------------------------------------------------------------------
(* Properties of the capture as main runs it, checked under SpecMain.      *)

\* Tab.get_url() is no URL.
InvalidBase == IsErr(Url_parse(url))

\* C11 as stated: on an invalid base address, the error that from_tab
\* returns once Images::from has run is the URL parse error.
C11_BaseErrorReturned ==
    (pc = "returned" /\ imgs.st = "done" /\ InvalidBase) =>
        webpage = Err(<<"ImagesError", "UrlError">>)

\* What has ended stays as it ended: no task, no future and no write runs
\* a second time.
NoRetry ==
    /\ \A i \in 1..Len(Tasks) : Tasks[i].st = "done" => Tasks'[i] = Tasks[i]
    /\ md.st = "done" => md' = md
    /\ imgs.st = "done" => imgs' = imgs
    /\ pc = "returned" => pc' = pc /\ webpage' = webpage
    /\ \A r \in {<<html_res, html_res'>>, <<pdf_res, pdf_res'>>, <<md_res, md_res'>>,
                  <<images_res, images_res'>>, <<info_json_res, info_json_res'>>} :
           r[1] # NotYet => r[2] = r[1]
    /\ \A k \in 1..Len(img_results) : img_results'[k] = img_results[k]
    /\ wpc = "returned" => wpc' = wpc /\ out' = out /\ fs' = fs

\* The errors of from_tab and where each comes from.
ErrorPolicy ==
    /\ InvalidBase =>
           /\ Tasks = <<>>
           /\ imgs.st = "done" => imgs.out = Err("UrlError")
    /\ (pc = "returned" /\ imgs.st = "done" /\ InvalidBase) =>
           webpage = IF IsErr(md.out) THEN Err(<<"MarkdownConversionError">>)
                     ELSE Err(<<"ImagesError", "UrlError">>)
    /\ (pc = "returned" /\ Tasks # <<>>) =>
           /\ IsOk(imgs.out)
           /\ IsOk(md.out) => IsOk(webpage)
           /\ IsErr(webpage) => webpage = Err(<<"MarkdownConversionError">>)
    /\ ~IsOk(webpage) =>
           /\ wpc = "idle"
           /\ fs = fs0
           /\ NothingAttempted

\* C11, amended: the failure of a fetch or of a decoding never reaches the
\* caller of from_tab: a capture with fetch tasks fails only by its
\* conversion.  On an invalid base address Images::from fails with the URL
\* parse error and no fetch task is issued; from_tab then returns that
\* error, or the conversion error when the conversion has failed as well,
\* and in both cases no bundle: main writes nothing.  Nothing that has
\* ended is run again.
C11_Propagation == []ErrorPolicy /\ [][NoRetry]_vars

\* An invalid base address and a conversion that succeeded: the URL parse
\* error is what from_tab returned, and the disk is as it was.
C11_Witness ==
    /\ pc = "returned"
    /\ InvalidBase
    /\ IsOk(md.out)
    /\ Len(html) >= 1
    /\ webpage = Err(<<"ImagesError", "UrlError">>)
    /\ fs = fs0 /\ wpc = "idle"

-----------------------------------------------------------------------------
(* Properties of one Image future, checked under SpecImage.                *)

\* The entries of a candidate list: each stretch without a comma, as the
\* places <<a, b>> of the commas, or ends of the text, around it.
Entries(s) ==
    LET at == {0, Len(s) + 1} \cup { i \in 1..Len(s) : s[i] = "," }
    IN { e \in at \X at : e[1] < e[2] /\ \A i \in at : ~(e[1] < i /\ i < e[2]) }

\* The places of the first token of an entry: the first stretch without
\* whitespace; <<0, 0>> when the entry is empty or blank.
Candidate(s, e) ==
    LET in == { i \in (e[1] + 1)..(e[2] - 1) : ~IsWhitespace(s[i]) }
        k == CHOOSE i \in in : \A j \in in : i <= j
        ends == { j \in in : j >= k /\ \A i \in k..j : i \in in }
    IN IF in = {} THEN <<0, 0>>
       ELSE <<k, CHOOSE j \in ends : \A i \in ends : i <= j>>

ImageSuffixes ==
    { <<".", "j", "p", "g">>, <<".", "j", "p", "e", "g">>,
      <<".", "p", "n", "g">>, <<".", "w", "e", "b", "p">> }

\* The text of a candidate ends in an image extension.
TextIsImage(u) ==
    \E x \in ImageSuffixes : Len(u) >= Len(x) /\ \A i \in 1..Len(x) : u[Len(u) - Len(x) + i] = x[i]

\* The path of a candidate, what comes before its query or its fragment,
\* ends in an image extension.
PathIsImage(u) ==
    LET stops == { i \in 1..Len(u) : u[i] \in {"?", "#"} }
        end == IF stops = {} THEN Len(u) ELSE (CHOOSE i \in stops : \A j \in stops : i <= j) - 1
    IN TextIsImage(SubSeq(u, 1, end))

\* The candidate of the last entry whose candidate passes the test.
LastCandidate(s, Test(_)) ==
    LET cs == { Candidate(s, e) : e \in Entries(s) }
        ok == { c \in cs : c[1] > 0 /\ Test(SubSeq(s, c[1], c[2])) }
        c == CHOOSE c \in ok : \A d \in ok : d[1] <= c[1]
    IN IF ok = {} THEN None ELSE Some(SubSeq(s, c[1], c[2]))

\* handle_image_srcset has run on the candidate list of the task.
SrcsetPolled == task.kind = "srcset" /\ task.st # "created"

\* C12 as stated: the candidate that is selected is the last whose path
\* ends in jpg, jpeg, png or webp, and the task fails with the srcset
\* error exactly when there is none.
C12_SelectsByPath ==
    SrcsetPolled =>
        /\ extract_last_image_url(task.attr) = LastCandidate(task.attr, PathIsImage)
        /\ task.out = Err("SrcsetError") <=> LastCandidate(task.attr, PathIsImage) = None

\* C12, amended: the entries of a candidate list are its stretches between
\* commas, the candidate of an entry is its first whitespace-delimited
\* token, and the candidate that is selected is the last one whose text,
\* query and fragment included, ends in .jpg, .jpeg, .png or .webp; the
\* task fails with the srcset error exactly when there is none, and goes
\* on with the selected candidate and no other when there is one.
C12_SelectsBySuffix ==
    SrcsetPolled =>
        LET selected == LastCandidate(task.attr, TextIsImage)
        IN /\ extract_last_image_url(task.attr) = selected
           /\ task.out = Err("SrcsetError") <=> selected = None
           /\ selected # None =>
                  IF IsOk(Url_parse(selected[1]))
                  THEN task.st = "pending" => task.img_url = Url_parse(selected[1]).val
                  ELSE task.st = "done" /\ task.out = Err("UrlError")

\* The list "a.png 100w, b.jpg 200w, c.txt 300w": b.jpg is selected.
C12_Witness ==
    /\ SrcsetPolled
    /\ task.attr = SrcsetExample
    /\ extract_last_image_url(task.attr) = Some(<<"b", ".", "j", "p", "g">>)
    /\ task.out # Err("SrcsetError")

\* fetch_image has run to its end on the URL and the answer of the task.
Answered == task.st = "done" /\ "response" \in DOMAIN task

\* The path segments of the URL of the task (a URL of http has some).
Segs == task.img_url.path_segments[1]

ImageName == <<"i", "m", "a", "g", "e">>

\* C13 as stated: the filename of a fetched asset is the last non-empty
\* path segment of its URL, and "image" when no segment is non-empty.
C13_LastNonEmptySegment ==
    (Answered /\ IsOk(task.out)) =>
        LET full == { i \in 1..Len(Segs) : Segs[i] # <<>> }
        IN task.out.val.filename =
               IF full = {} THEN ImageName
               ELSE Segs[CHOOSE i \in full : \A j \in full : j <= i]

\* C13, amended: the filename of a fetched asset is the last path segment
\* of its URL when that segment is not empty, and "image" when it is: for
\* a path that ends in "/", whatever the segments before.
C13_LastSegment ==
    (Answered /\ IsOk(task.out)) =>
        task.out.val.filename =
            IF Segs[Len(Segs)] # <<>> THEN Segs[Len(Segs)] ELSE ImageName

\* http://c/d/ was fetched: the asset is named image, not d.
C13_Witness ==
    /\ Answered /\ IsOk(task.out)
    /\ Segs = << <<"d">>, <<>> >>
    /\ task.out.val.filename = ImageName

DataPrefix == <<"d", "a", "t", "a", ":", "i", "m", "a", "g", "e">>

InlinePolled ==
    /\ task.kind = "src" /\ task.st # "created"
    /\ Len(task.attr) >= Len(DataPrefix)
    /\ \A i \in 1..Len(DataPrefix) : task.attr[i] = DataPrefix[i]

\* The places of a character in a text.
Places(s, c) == { i \in 1..Len(s) : s[i] = c }
First(at) == CHOOSE i \in at : \A j \in at : i <= j

\* The metadata and the body of a data: URL that has a comma: what is
\* before and after the first one.
MetaOf(s) == SubSeq(s, 1, First(Places(s, ",")) - 1)
BodyOf(s) == SubSeq(s, First(Places(s, ",")) + 1, Len(s))

\* The media type of the metadata: up to its first ";".
MediaType(meta) ==
    IF Places(meta, ";") = {} THEN meta ELSE SubSeq(meta, 1, First(Places(meta, ";")) - 1)

\* The subtype of a media type that has one: after its first "/", up to
\* the next.
Subtype(m) ==
    LET from == First(Places(m, "/")) + 1
        more == { i \in Places(m, "/") : i >= from }
    IN SubSeq(m, from, IF more = {} THEN Len(m) ELSE First(more) - 1)

\* The standard Base64 encoding of a byte string, with its padding.
Encode(b) ==
    LET byte(i) == IF i <= Len(b) THEN b[i] ELSE 0
        symbol(k) ==
            LET q == 3 * ((k - 1) \div 4)
                pos == (k - 1) % 4
                v == CASE pos = 0 -> byte(q + 1) \div 4
                       [] pos = 1 -> (byte(q + 1) % 4) * 16 + byte(q + 2) \div 16
                       [] pos = 2 -> (byte(q + 2) % 16) * 4 + byte(q + 3) \div 64
                       [] OTHER -> byte(q + 3) % 64
            IN IF pos >= 2 /\ q + pos > Len(b) THEN "=" ELSE STANDARD[v + 1]
    IN [k \in 1..(4 * ((Len(b) + 2) \div 3)) |-> symbol(k)]

\* A text is standard Base64: whole groups of four, symbols of the alphabet
\* before a padding of at most two "=", and no bit set that the padding
\* drops.
WellFormed(d) ==
    LET pad == IF d # <<>> /\ d[Len(d)] = "="
               THEN (IF Len(d) >= 2 /\ d[Len(d) - 1] = "=" THEN 2 ELSE 1)
               ELSE 0
        symbols == { STANDARD[i] : i \in 1..Len(STANDARD) }
        value(c) == (CHOOSE i \in 1..Len(STANDARD) : STANDARD[i] = c) - 1
    IN /\ Len(d) % 4 = 0
       /\ \A i \in 1..(Len(d) - pad) : d[i] \in symbols
       /\ pad = 1 => value(d[Len(d) - 1]) % 4 = 0
       /\ pad = 2 => value(d[Len(d) - 2]) % 16 = 0

-----------------------------------------------------------------------------
(* More properties of the capture as main runs it (SpecMain).              *)

HasSrc(e) == e.src # None
HasSrcset(e) == e.srcset # None
Succeeded(t) == IsOk(t.out)

\* The assets of the tasks that succeeded, in the order of the tasks.
AssetsOf(tasks) ==
    LET ok == SelectSeq(tasks, Succeeded)
    IN [k \in 1..Len(ok) |-> ok[k].out.val]

\* The last image, in the order of the list, of the name n that was
\* written; 0 when none was.
LastWrittenNamed(n) ==
    LET at == { k \in 1..Len(img_results) :
                    self.images[k].filename = n /\ IsOk(img_results[k]) }
    IN IF at = {} THEN 0 ELSE CHOOSE k \in at : \A l \in at : l <= k

\* C16: the order of the assets is that of the document, not that of the
\* answers.  The tasks of the src references are in the order of their
\* elements, and so are those of the data-srcset references; whenever
\* Images::from has returned a list, in whatever order the requests were
\* answered, it is the assets of the src tasks that succeeded, in the order
\* of the tasks, followed by those of the data-srcset tasks that succeeded.
\* The images are written in the order of that list: a file of images/
\* holds the bytes of the last image of its name that was written.
C16_DocumentOrder ==
    /\ imgs.st \in {"src", "srcset", "done"} /\ Tasks # <<>> =>
           /\ [i \in 1..Len(tasks_src) |-> tasks_src[i].attr]
                  = [i \in 1..Len(SelectSeq(html, HasSrc)) |-> SelectSeq(html, HasSrc)[i].src[1]]
           /\ [i \in 1..Len(tasks_srcset) |-> tasks_srcset[i].attr]
                  = [i \in 1..Len(SelectSeq(html, HasSrcset)) |->
                         SelectSeq(html, HasSrcset)[i].srcset[1]]
    /\ (imgs.st = "done" /\ IsOk(imgs.out)) =>
           imgs.out.val = AssetsOf(tasks_src) \o AssetsOf(tasks_srcset)
    /\ IsOk(webpage) => webpage.val.images = AssetsOf(tasks_src) \o AssetsOf(tasks_srcset)
    /\ wpc # "idle" =>
           \A k \in 1..Len(img_results) :
               IsOk(img_results[k]) =>
                   /\ LastWrittenNamed(self.images[k].filename) >= k
                   /\ fs.files[<<"images", self.images[k].filename>>] =
                          <<"image",
                            self.images[LastWrittenNamed(self.images[k].filename)].image_bytes>>

\* Three assets of four tasks, all written: the first, of a src reference,
\* and the last, of a data-srcset reference, have one name and other
\* bytes, and the file has the bytes of the last.
C16_Witness ==
    /\ wpc = "returned" /\ out = Unit
    /\ Len(Tasks) = 4 /\ Len(self.images) = 3
    /\ IsErr(tasks_src[2].out)
    /\ self.images[1] = tasks_src[1].out.val
    /\ self.images[3] = tasks_srcset[2].out.val
    /\ self.images[1].filename = self.images[3].filename
    /\ self.images[1].image_bytes # self.images[3].image_bytes
    /\ fs.files[<<"images", self.images[1].filename>>] = <<"image", self.images[3].image_bytes>>

-----------------------------------------------------------------------------
(* More properties of from_tab, checked under Spec.                        *)

\* A reference without a scheme: no ":" comes before its first "/", "?"
\* or "#".
Relative(u) ==
    ~\E i \in 2..Len(u) : u[i] = ":" /\ \A j \in 1..(i - 1) : u[j] \notin {":", "/", "?", "#"}

\* The selected candidate of a data-srcset task is a relative reference.
RelativeCandidate(t) ==
    /\ LastCandidate(t.attr, TextIsImage) # None
    /\ Relative(LastCandidate(t.attr, TextIsImage)[1])

\* C17: the selected candidate of a data-srcset reference is parsed on its
\* own and never joined against the address of the page.  A task whose
\* selected candidate is relative has no request at any time, ends in its
\* first poll with the URL parse error, and has no asset in the list of
\* Images::from or in the bundle; and the address of the page is valid
\* whenever there is such a task.
C17_NoJoin ==
    \A j \in 1..Len(tasks_srcset) :
        RelativeCandidate(tasks_srcset[j]) =>
            /\ ~InvalidBase
            /\ tasks_srcset[j].st \in {"created", "done"}
            /\ "img_url" \notin DOMAIN tasks_srcset[j]
            /\ imgs.st \in {"srcset", "done"} =>
                   /\ tasks_srcset[j].st = "done"
                   /\ tasks_srcset[j].out = Err("UrlError")
            /\ IsOk(imgs.out) =>
                   Len(imgs.out.val) <=
                       Len(SelectSeq(tasks_src, Succeeded))
                           + Len(SelectSeq(tasks_srcset, Succeeded))
            /\ ~Succeeded(tasks_srcset[j])

\* One element with src="a.png" and data-srcset="a.png 1x, b.jpg 2x": the
\* src reference was joined and fetched, the candidate b.jpg was not, and
\* the bundle has one image.
C17_Witness ==
    /\ IsOk(webpage)
    /\ Len(html) = 1
    /\ html[1].src = Some(SrcRelative) /\ html[1].srcset = Some(SrcsetRelative)
    /\ IsOk(tasks_src[1].out)
    /\ tasks_srcset[1].out = Err("UrlError")
    /\ webpage.val.images = <<tasks_src[1].out.val>>

-----------------------------------------------------------------------------
(* More properties of write_to_disk, checked under SpecWrite.              *)

\* The results of the four artifacts that are not the PDF.
OtherResults == <<html_res, md_res, images_res, info_json_res>>

\* C18: the PDF is one of the artifacts.  A write_to_disk that has created
\* the directory and returned has run output_pdf; when that succeeded,
\* <title>.pdf holds the rendering of the page; when the rendering or the
\* write of it failed, there is no <title>.pdf, write_to_disk has returned
\* an error, which is that of the PDF when the write of the HTML has not
\* failed, and the four other artifacts were attempted all the same, each
\* file of those that succeeded being there.
C18_PdfArtifact ==
    (DirCreated /\ wpc = "returned") =>
        /\ pdf_res # NotYet
        /\ pdf_res = Unit => fs.files[<<"t.pdf">>] = <<"pdf", self.url>>
        /\ IsErr(pdf_res) =>
               /\ pdf_res \in {Err(<<"AnyhowError">>), Err(<<"IO", "write">>)}
               /\ ~is_file(fs, <<"t.pdf">>)
               /\ IsErr(out)
               /\ IsOk(html_res) => out = pdf_res
               /\ \A i \in 1..Len(OtherResults) : OtherResults[i] # NotYet
               /\ html_res = Unit => fs.files[<<"t.html">>] = <<"html", self.html>>
               /\ md_res = Unit => fs.files[<<"t.md">>] = <<"md", self.markdown>>
               /\ info_json_res = Unit =>
                      fs.files[<<"informations.json">>] = <<"json", self.info_json>>
               /\ images_res = Unit =>
                      \A k \in 1..Len(self.images) :
                          is_file(fs, <<"images", self.images[k].filename>>)

\* The page could not be rendered, every other write succeeded, an image
\* among them: write_to_disk returned the error of the rendering.
C18_Witness ==
    /\ DirCreated /\ wpc = "returned"
    /\ pdf_res = Err(<<"AnyhowError">>)
    /\ \A i \in 1..Len(OtherResults) : OtherResults[i] = Unit
    /\ out = Err(<<"AnyhowError">>)
    /\ is_file(fs, <<"t.html">>) /\ is_file(fs, <<"t.md">>)
    /\ is_file(fs, <<"informations.json">>)
    /\ Cardinality(ImagePaths) = 1

\* C19: the directory of the images.  For a bundle without an asset,
\* write_images_to_disk returns Ok and there is no images/ at any time;
\* for a bundle with assets, an image write is attempted only with images/
\* in place, and when images/ could not be created write_images_to_disk
\* has returned that error and has attempted no image write.
C19_ImagesDir ==
    DirCreated =>
        /\ Len(self.images) = 0 =>
               /\ ~is_dir(fs, <<"images">>)
               /\ img_results = <<>>
               /\ images_res \in {NotYet, Unit}
               /\ wpc \in {"info", "join", "returned"} => images_res = Unit
        /\ Len(self.images) >= 1 =>
               /\ img_results # <<>> => is_dir(fs, <<"images">>)
               /\ wpc = "image" => is_dir(fs, <<"images">>)
               /\ (~is_dir(fs, <<"images">>) /\ wpc \in {"info", "join", "returned"}) =>
                      /\ images_res = Err(<<"ImagesError", "IOError", "create_dir">>)
                      /\ img_results = <<>>
                      /\ ImagePaths = {}
               /\ images_res = Err(<<"ImagesError", "IOError", "create_dir">>) =>
                      ~is_dir(fs, <<"images">>) /\ img_results = <<>>

\* Every fetch of the capture failed: a bundle without an asset, written
\* without an error and without images/.
C19_Witness ==
    /\ DirCreated /\ wpc = "returned" /\ out = Unit
    /\ Len(Tasks) >= 1
    /\ Len(self.images) = 0
    /\ images_res = Unit
    /\ ~is_dir(fs, <<"images">>)
    /\ fs.files[<<"informations.json">>][2].nb_images = 0

-----------------------------------------------------------------------------
(* Termination of from_tab, checked under SpecLive.                        *)

\* pandoc is running, or a request is waiting for its answer.
InFlight == md.st = "running" \/ \E i \in 1..Len(Tasks) : Tasks[i].st = "pending"
Hung == \E i \in 1..Len(Tasks) : Tasks[i].st = "pending"
Returned == pc = "returned"

\* A request that is waiting changes by its answer alone: nothing ends it
\* from outside, and nothing ends the capture around it.
OnlyAnswers ==
    \A i \in 1..Len(Tasks) :
        Tasks[i].st = "pending" =>
            /\ ~Returned'
            /\ Len(Tasks') = Len(Tasks)
            /\ \/ Tasks'[i] = Tasks[i]
               \/ \E resp \in Responses(Tasks[i].img_url) :
                      Tasks'[i] = fetch_done(Tasks[i], resp)

\* The fairness of SpecLive is that of Polled: a step of the capture is one
\* of Polled exactly when it is one of Poll that moves a position.
PollIsPolled == [][Polled <=> <<Poll>>_pvars]_vars

\* C20: from_tab has no timeout and cancels nothing.  If from some time on
\* neither pandoc nor a request is in flight, that is, if the conversion
\* and every fetch settle, from_tab returns; if from some time on a request
\* is waiting for ever, from_tab never returns; a request that is waiting
\* is ended by its answer alone, and when it is answered by a failure the
\* capture goes on: a capture with fetch tasks that has returned has
\* failed only if the conversion has.
C20_Termination ==
    /\ <>[]~InFlight => <>Returned
    /\ <>[]Hung => []~Returned
    /\ [][OnlyAnswers]_vars
    /\ [](Returned /\ Tasks # <<>> /\ IsOk(md.out) => IsOk(webpage))

\* One request was answered by a failure, another is waiting: from_tab
\* has not returned.
C20_Witness ==
    /\ pc = "join" /\ md.st = "done"
    /\ \E i \in 1..Len(Tasks) : Tasks[i].st = "pending"
    /\ \E i \in 1..Len(Tasks) : Tasks[i].out = Err("ReqwestError")

====
